---- MODULE Spec2Model ----
(***************************************************************************)
(* Camera lifecycle state machine and configuration reconciliation of the  *)
(* OpenCV backend (Software/Drivers/opencv_camera.py) driven through the   *)
(* CameraInterface contract (Software/Interface/camera_interface.py).      *)
(*                                                                         *)
(* One thread of control drives one OpenCVCamera.  Every method is one     *)
(* action, except read(), whose retry loop is one action per iteration so  *)
(* that the passage of monotonic time between iterations is visible.       *)
(* The native cv2.VideoCapture device is the environment: whether it can   *)
(* be acquired, which mode it ends up in after a property set, and whether *)
(* its read primitive yields a frame are nondeterministic.                 *)
(***************************************************************************)
EXTENDS Integers, FiniteSets, Sequences, TLC

VARIABLES
    _is_open,        \* CameraInterface._is_open
    _is_streaming,   \* CameraInterface._is_streaming
    _current_config, \* CameraInterface._current_config
    _capture,        \* OpenCVCamera._capture: "None", or a VideoCapture object
                     \* that is "opened" (holds the device) or "unopened"
    hw_mode,         \* the mode the device actually runs: resolution, framerate
    source,          \* "live": the read primitive may yield frames; "never": it never does
    pc,              \* "idle", or "reading" while read() is inside its retry loop
    read_timeout,    \* the timeout argument of the read() in progress
    elapsed,         \* time.monotonic() - start_time as last observed by that read()
    in_with,         \* TRUE inside a `with cam:` block
    last_op,         \* the last method called
    last_result,     \* what it returned ("None", "Frame", ...) or the exception it raised
    prev_op,         \* the method called before it
    req_config,      \* the CameraConfig passed to the last call, else NoConfig
    ret_config,      \* the CameraConfig returned by the last set_config, else NoConfig
    prim_calls,      \* invocations of _capture.read() made by the last call (saturating)
    grab_calls,      \* invocations of _capture.grab() made by the last call
    hw_sets,         \* invocations of _capture.set() made by the last call
    exit_exc,        \* the exception the with block was left with ("None": normal exit)
    exit_closes,     \* invocations of close() made by the last __exit__
    close_pc,        \* where a close() that runs statement by statement stands:
                     \* "idle", "released", "cleared", "closed"
    gen_pc,          \* the frames() generator: "none", "check", "call", "loop",
                     \* "yield", "done" (ended normally), "error" (raised)
    gen_timeout,     \* the timeout frames() passes to read()
    gen_elapsed,     \* elapsed time last observed by the read() frames() is in
    gen_result,      \* the exception frames() raised, else "None"
    constructed,     \* driver objects constructed by the last CameraFactory.create()
    create_key,      \* the driver key that create() resolved, as its dotted parts
    native_handles,  \* device handles the backend acquired and has not released
    _lock,           \* OpenCVCamera._lock: 0 when free, else the thread that holds it
    readers,         \* per thread that calls read(): where it stands in read()
                     \* (pc), its timeout, the elapsed time it last observed, the
                     \* frame counter it saw on entering _capture.read() (seen),
                     \* what that call returned (ok), how its read() ended
                     \* (result) and the frame it returned (frame, 0: none)
    frames_out       \* frames the device has handed out so far

vars == << _is_open, _is_streaming, _current_config, _capture, hw_mode, source,
           pc, read_timeout, elapsed, in_with, last_op, last_result, prev_op,
           req_config, ret_config, prim_calls, grab_calls, hw_sets, exit_exc,
           exit_closes, close_pc, gen_pc, gen_timeout, gen_elapsed, gen_result,
           constructed, create_key, native_handles, _lock, readers, frames_out >>

camera == << _is_open, _is_streaming, _current_config, _capture >>

\* the state of the threads that run beside the caller, and of the factory
conc == << close_pc, gen_pc, gen_timeout, gen_elapsed, gen_result >>

\* the state of the threads that call read() concurrently
rd == << _lock, readers, frames_out >>

----------------------------------------------------------------------------
(* Bounds of the model *)

\* largest finite timeout (in clock ticks) passed to read()
MaxTimeout == 2

\* largest advance of the monotonic clock observed between two checks of read()
MaxStep == 2

\* prim_calls counts up to this value and then stays there
MaxPrimCalls == 2

\* native_handles counts up to this value and then stays there
MaxHandles == 2

\* frames the device hands out to concurrent readers before it runs dry
MaxFrames == 2

----------------------------------------------------------------------------
(* Value types *)

Resolution(w, h) == [width |-> w, height |-> h]

\* the resolutions the driver advertises
Resolutions == { Resolution(640, 480), Resolution(1280, 720), Resolution(1920, 1080) }

\* framerates a caller may request
Framerates == { 15, 30 }

\* CameraConfig(resolution=res, framerate=fps): every other field keeps its
\* dataclass default.  None is written 0 in the numeric fields (a caller's
\* numbers are positive) and << >> in roi_norm.
CameraConfig(res, fps) ==
    [ resolution |-> res, framerate |-> fps,
      pixel_format |-> "BGR", rotation_deg |-> 0, hflip |-> FALSE, vflip |-> FALSE,
      auto_exposure |-> TRUE, exposure_time_us |-> 0, iso |-> 0,
      auto_white_balance |-> TRUE, white_balance_gain_r |-> 0,
      white_balance_gain_b |-> 0,
      auto_focus |-> TRUE, focus_distance_m |-> 0,
      roi_norm |-> << >> ]

\* CameraConfig(): the dataclass defaults
DefaultConfig == CameraConfig(Resolution(1280, 720), 30)

Configs == { CameraConfig(r, f) : r \in Resolutions, f \in Framerates }

\* stands for "no CameraConfig was returned"
NoConfig == CameraConfig(Resolution(0, 0), 0)

\* timeout argument of read(): None, or a finite number of ticks
NoTimeout == [none |-> TRUE, t |-> 0]

Timeout(t) == [none |-> FALSE, t |-> t]

Timeouts == { NoTimeout } \cup { Timeout(t) : t \in 0..MaxTimeout }

----------------------------------------------------------------------------
(* The native device behind cv2.VideoCapture (environment) *)

\* modes the hardware can really run: a strict subset of what may be requested
SupportedResolutions == { Resolution(640, 480), Resolution(1280, 720) }

SupportedFramerates == { 30 }

SupportedModes == { CameraConfig(r, f) : r \in SupportedResolutions, f \in SupportedFramerates }

\* Modes the device may be in after set(WIDTH), set(HEIGHT), set(FPS) with the
\* values of config on a handle in state cap.  A supported value is taken; an
\* unsupported one is rejected (mode kept) or rounded to some supported value.
\* On a VideoCapture that is not opened, set() returns False and does nothing.
DeviceAfterSet(cap, hw, config) ==
    IF cap # "opened" THEN { hw }
    ELSE { CameraConfig(r, f) :
             r \in (IF config.resolution \in SupportedResolutions
                    THEN { config.resolution } ELSE SupportedResolutions),
             f \in (IF config.framerate \in SupportedFramerates
                    THEN { config.framerate } ELSE SupportedFramerates) }

----------------------------------------------------------------------------
(* Bookkeeping shared by the actions *)

\* what the caller observes of a completed (or, for read, started) call
Observe(op, res, req, ret, prims, grabs, sets) ==
    /\ last_op' = op
    /\ prev_op' = last_op
    /\ last_result' = res
    /\ req_config' = req
    /\ ret_config' = ret
    /\ prim_calls' = prims
    /\ grab_calls' = grabs
    /\ hw_sets' = sets

\* the call is not a read() and not an __exit__
Plain ==
    /\ pc' = "idle"
    /\ read_timeout' = NoTimeout
    /\ elapsed' = 0
    /\ exit_exc' = "None"
    /\ exit_closes' = 0
    /\ constructed' = 0
    /\ create_key' = << >>
    /\ UNCHANGED << conc, rd >>

Min(a, b) == IF a < b THEN a ELSE b

\* the threads that call read()
Readers == { 1, 2 }

\* a thread that has not called read() yet
IdleReader ==
    [ pc |-> "idle", timeout |-> NoTimeout, elapsed |-> 0, seen |-> 0, ok |-> FALSE,
      result |-> "None", frame |-> 0 ]

Init ==
    /\ _is_open = FALSE
    /\ _is_streaming = FALSE
    /\ _current_config = DefaultConfig
    /\ _capture = "None"
    /\ hw_mode \in SupportedModes
    /\ source \in { "live", "never" }
    /\ pc = "idle"
    /\ read_timeout = NoTimeout
    /\ elapsed = 0
    /\ in_with = FALSE
    /\ last_op = "init"
    /\ prev_op = "init"
    /\ last_result = "None"
    /\ req_config = NoConfig
    /\ ret_config = NoConfig
    /\ prim_calls = 0
    /\ grab_calls = 0
    /\ hw_sets = 0
    /\ exit_exc = "None"
    /\ exit_closes = 0
    /\ close_pc = "idle"
    /\ gen_pc = "none"
    /\ gen_timeout = NoTimeout
    /\ gen_elapsed = 0
    /\ gen_result = "None"
    /\ constructed = 0
    /\ create_key = << >>
    /\ native_handles = 0
    /\ _lock = 0
    /\ readers = [t \in Readers |-> IdleReader]
    /\ frames_out = 0

----------------------------------------------------------------------------
(* OpenCVCamera: the conditions and assignments of its methods *)

\* open that does not return early on an open camera
AlreadyOpen_Never(open) == FALSE

\* open: `if self._is_open: return`
AlreadyOpen(open) == open

\* open that keeps the configuration of the previous session
ConfigWithoutRequest_Kept(current) == current

\* open: `else: self._current_config = CameraConfig()`
ConfigWithoutRequest(current) == DefaultConfig

\* start_stream with its state check inverted
StartStreamAllowed_Inverted(open) == ~open

\* start_stream without its state check
StartStreamAllowed_NoCheck(open) == TRUE

\* start_stream: `if not self._is_open: raise CameraStateError`
StartStreamAllowed(open) == open

\* read that checks the handle but not the streaming flag
ReadStateError_HandleOnly(streaming, cap) == cap = "None"

\* read: `if not self._is_streaming or self._capture is None: raise CameraStateError`
ReadStateError(streaming, cap) == ~streaming \/ cap = "None"

\* read that compares the elapsed time with >= instead of >
TimedOut_AtLimit(timeout, el) == ~timeout.none /\ el >= timeout.t

\* read: `timeout is not None and (time.monotonic() - start_time) > timeout`
TimedOut(timeout, el) == ~timeout.none /\ el > timeout.t

\* capture that checks the handle but not is_open
CaptureStateError_HandleOnly(open, cap) == cap = "None"

\* capture: `if not self._is_open or self._capture is None: raise CameraStateError`
CaptureStateError(open, cap) == ~open \/ cap = "None"

\* set_config, capabilities, flush: `if not self._capture`.  A VideoCapture
\* object is truthy whether or not it holds a device; only None is falsy.
NoCapture(cap) == cap = "None"

\* close that releases the handle but does not clear the attribute
CloseCapture_Kept(cap) == cap

\* close: `if self._capture is not None: release(); self._capture = None`
CloseCapture(cap) == "None"

\* set_config: `self._current_config = config`
StoredConfig(config) == config

\* set_config that returns the configuration held before the call
ReturnedConfig_Stale(stored) == _current_config

\* set_config: `return self._current_config`
ReturnedConfig(stored) == stored

\* a release() that does not give the device back
Released_Nothing(cap) == 0

\* close: `self._capture.release()`, the device handles it gives back: one
\* when the object holds the device, none when it does not
Released(cap) == IF cap = "opened" THEN 1 ELSE 0

\* flush: `for _ in range(5): self._capture.grab()`
FlushCount == 5

\* outcomes of one _capture.read() on the opened device
PrimitiveYields == IF source = "never" THEN { FALSE } ELSE BOOLEAN

\* the body of open(config) once `if self._is_open: return` did not return;
\* op is the name under which the caller sees the call
OpenBody(op, hasConfig, config, avail, mode) ==
    IF ~avail
    THEN \* VideoCapture(...) is assigned, isOpened() is False: raise
         /\ _capture' = "unopened"
         /\ UNCHANGED << _is_open, _is_streaming, _current_config, hw_mode,
                         native_handles >>
         /\ Observe(op, "CameraOpenError", IF hasConfig THEN config ELSE NoConfig,
                    NoConfig, 0, 0, 0)
    ELSE \* the object assigned holds the device; open() releases nothing
         /\ _capture' = "opened"
         /\ native_handles' = Min(native_handles + 1, MaxHandles)
         /\ _is_open' = TRUE
         /\ UNCHANGED _is_streaming
         /\ IF hasConfig
            THEN \* self.set_config(config): _capture is set, so it cannot raise
                 /\ hw_mode' \in DeviceAfterSet("opened", mode, config)
                 /\ _current_config' = StoredConfig(config)
                 /\ Observe(op, "None", config, NoConfig, 0, 0, 3)
            ELSE /\ hw_mode' = mode
                 /\ _current_config' = ConfigWithoutRequest(_current_config)
                 /\ Observe(op, "None", NoConfig, NoConfig, 0, 0, 0)

\* close that forgets `self._is_streaming = False`
CloseBody_KeepsStreaming ==
    /\ _capture' = (IF _capture # "None" THEN CloseCapture(_capture) ELSE _capture)
    /\ native_handles' = native_handles - Released(_capture)
    /\ _is_open' = FALSE
    /\ UNCHANGED << _is_streaming, _current_config, hw_mode >>

\* the body of close()
CloseBody ==
    /\ _capture' = (IF _capture # "None" THEN CloseCapture(_capture) ELSE _capture)
    /\ native_handles' = native_handles - Released(_capture)
    /\ _is_open' = FALSE
    /\ _is_streaming' = FALSE
    /\ UNCHANGED << _current_config, hw_mode >>

----------------------------------------------------------------------------
(* Actions: one per method call *)

\* open(config) / open(); the device may or may not be acquired, and when it
\* is, it is found in some supported mode
Open(hasConfig, config, avail, mode) ==
    /\ pc = "idle"
    /\ Plain
    /\ UNCHANGED << source, in_with >>
    /\ IF AlreadyOpen(_is_open)
       THEN /\ UNCHANGED << camera, native_handles, hw_mode >>
            /\ Observe("open", "None", IF hasConfig THEN config ELSE NoConfig,
                       NoConfig, 0, 0, 0)
       ELSE OpenBody("open", hasConfig, config, avail, mode)

Close ==
    /\ pc = "idle"
    /\ Plain
    /\ UNCHANGED << source, in_with >>
    /\ CloseBody
    /\ Observe("close", "None", NoConfig, NoConfig, 0, 0, 0)

StartStream ==
    /\ pc = "idle"
    /\ Plain
    /\ UNCHANGED << source, in_with, _is_open, _current_config, _capture, native_handles, hw_mode >>
    /\ IF StartStreamAllowed(_is_open)
       THEN /\ _is_streaming' = TRUE
            /\ Observe("start_stream", "None", NoConfig, NoConfig, 0, 0, 0)
       ELSE /\ UNCHANGED _is_streaming
            /\ Observe("start_stream", "CameraStateError", NoConfig, NoConfig, 0, 0, 0)

\* stop_stream that also tears the camera down
StopStream_Closes ==
    /\ pc = "idle"
    /\ Plain
    /\ UNCHANGED << source, in_with >>
    /\ CloseBody
    /\ Observe("stop_stream", "None", NoConfig, NoConfig, 0, 0, 0)

StopStream ==
    /\ pc = "idle"
    /\ Plain
    /\ UNCHANGED << source, in_with, _is_open, _current_config, _capture, native_handles, hw_mode >>
    /\ _is_streaming' = FALSE
    /\ Observe("stop_stream", "None", NoConfig, NoConfig, 0, 0, 0)

\* read(timeout): the state check and `start_time = time.monotonic()`
Read(timeout) ==
    /\ pc = "idle"
    /\ UNCHANGED << source, in_with, camera, native_handles, hw_mode, conc, rd >>
    /\ exit_exc' = "None"
    /\ exit_closes' = 0
    /\ constructed' = 0
    /\ create_key' = << >>
    /\ IF ReadStateError(_is_streaming, _capture)
       THEN /\ pc' = "idle"
            /\ read_timeout' = NoTimeout
            /\ elapsed' = 0
            /\ Observe("read", "CameraStateError", NoConfig, NoConfig, 0, 0, 0)
       ELSE /\ pc' = "reading"
            /\ read_timeout' = timeout
            /\ elapsed' = 0
            /\ Observe("read", "pending", NoConfig, NoConfig, 0, 0, 0)

\* one iteration of read()'s loop: `with self._lock: ok, frame = read()`, then
\* either the frame is returned or the clock, which advanced by d since it
\* was last looked at, is compared with the timeout
ReadAttempt(ok, d) ==
    /\ pc = "reading"
    /\ ok \in PrimitiveYields
    /\ UNCHANGED << source, in_with, camera, native_handles, hw_mode, read_timeout, last_op, prev_op,
                    req_config, ret_config, grab_calls, hw_sets, exit_exc, exit_closes,
                    conc, rd, constructed, create_key >>
    /\ prim_calls' = Min(prim_calls + 1, MaxPrimCalls)
    /\ IF ok
       THEN /\ pc' = "idle"
            /\ last_result' = "Frame"
            /\ UNCHANGED elapsed
       ELSE /\ elapsed' = (IF read_timeout.none THEN 0 ELSE elapsed + d)
            /\ IF TimedOut(read_timeout, elapsed')
               THEN pc' = "idle" /\ last_result' = "CameraTimeout"
               ELSE pc' = "reading" /\ UNCHANGED last_result

Flush ==
    /\ pc = "idle"
    /\ Plain
    /\ UNCHANGED << source, in_with, camera, native_handles, hw_mode >>
    /\ Observe("flush", "None", NoConfig, NoConfig, 0,
               IF NoCapture(_capture) THEN 0 ELSE FlushCount, 0)

\* capture(): one _capture.read(), no retry
Capture(ok) ==
    /\ pc = "idle"
    /\ Plain
    /\ UNCHANGED << source, in_with, camera, native_handles, hw_mode >>
    /\ IF CaptureStateError(_is_open, _capture)
       THEN Observe("capture", "CameraStateError", NoConfig, NoConfig, 0, 0, 0)
       ELSE /\ ok \in PrimitiveYields
            /\ Observe("capture", IF ok THEN "Frame" ELSE "CameraTimeout",
                       NoConfig, NoConfig, 1, 0, 0)

\* the body of set_config, entered by the caller as op
SetConfigBody(op, config) ==
    IF NoCapture(_capture)
    THEN /\ UNCHANGED << _current_config, hw_mode >>
         /\ Observe(op, "CameraStateError", config, NoConfig, 0, 0, 0)
    ELSE /\ hw_mode' \in DeviceAfterSet(_capture, hw_mode, config)
         /\ _current_config' = StoredConfig(config)
         /\ Observe(op, "CameraConfig", config,
                    ReturnedConfig(_current_config'), 0, 0, 3)

SetConfig(config) ==
    /\ pc = "idle"
    /\ Plain
    /\ UNCHANGED << source, in_with, _is_open, _is_streaming, _capture, native_handles >>
    /\ SetConfigBody("set_config", config)

Capabilities ==
    /\ pc = "idle"
    /\ Plain
    /\ UNCHANGED << source, in_with, camera, native_handles, hw_mode >>
    /\ Observe("capabilities", IF NoCapture(_capture) THEN "CameraStateError" ELSE "dict",
               NoConfig, NoConfig, 0, 0, 0)

----------------------------------------------------------------------------
(* CameraInterface: scoped acquisition (`with cam:`) *)

Errors == { "CameraOpenError", "CameraStateError", "CameraTimeout" }

\* how a with block can be left: normally, with the exception the last call
\* raised, or with an exception of the block's own code
BlockExits == { "None", "Exception" } \cup ({ last_result } \cap Errors)

\* __exit__ without the finally clause: close() is skipped when stop_stream() raised
ExitCloseCalls_NoFinally(open, stopRaised) == IF open /\ ~stopRaised THEN 1 ELSE 0

\* __exit__: `finally: if self.is_open: self.close()`, the number of close()
\* calls made; the finally clause runs whether or not stop_stream() raised
ExitCloseCalls(open, stopRaised) == IF open THEN 1 ELSE 0

\* __enter__: `if not self.is_open: self.open()`; when open() raises, the
\* block is not entered
Enter(avail, mode) ==
    /\ pc = "idle"
    /\ ~in_with
    /\ Plain
    /\ UNCHANGED source
    /\ IF _is_open
       THEN /\ UNCHANGED << camera, native_handles, hw_mode >>
            /\ Observe("enter", "None", NoConfig, NoConfig, 0, 0, 0)
       ELSE OpenBody("enter", FALSE, NoConfig, avail, mode)
    /\ in_with' = (last_result' = "None")

\* __exit__(exc_type, exc, tb): try: stop_stream() if streaming; finally:
\* close() if open; returns None, so exc is not suppressed.  stopRaises is a
\* backend whose stop_stream() raises (it is abstract in the interface; the
\* OpenCV one cannot): the exception raised inside __exit__ is then the one
\* that reaches the caller, with exc chained to it.
Exit(exc, stopRaises) ==
    /\ pc = "idle"
    /\ in_with
    /\ exc \in BlockExits
    /\ LET stopRaised == _is_streaming /\ stopRaises
           closes == ExitCloseCalls(_is_open, stopRaised)
       IN /\ IF closes > 0
             THEN CloseBody
             ELSE /\ _is_streaming' = (IF stopRaised THEN _is_streaming ELSE FALSE)
                  /\ UNCHANGED << _is_open, _current_config, _capture, native_handles, hw_mode >>
          /\ exit_closes' = closes
          /\ Observe("exit",
                     IF stopRaised THEN "BackendError" ELSE exc,
                     NoConfig, NoConfig, 0, 0, 0)
    /\ exit_exc' = exc
    /\ in_with' = FALSE
    /\ pc' = "idle"
    /\ read_timeout' = NoTimeout
    /\ elapsed' = 0
    /\ constructed' = 0
    /\ create_key' = << >>
    /\ UNCHANGED << source, conc, rd >>

----------------------------------------------------------------------------
(* Specifications *)

OpenStep == \E hasConfig \in BOOLEAN, config \in Configs, avail \in BOOLEAN,
               mode \in SupportedModes : Open(hasConfig, config, avail, mode)

ReadStep == \E timeout \in Timeouts : Read(timeout)

ReadAttemptStep == \E ok \in BOOLEAN, d \in 0..MaxStep : ReadAttempt(ok, d)

\* an iteration of the loop during which the monotonic clock advanced
ReadAttemptTick == \E ok \in BOOLEAN, d \in 1..MaxStep : ReadAttempt(ok, d)

CaptureStep == \E ok \in BOOLEAN : Capture(ok)

SetConfigStep == \E config \in Configs : SetConfig(config)

EnterStep == \E avail \in BOOLEAN, mode \in SupportedModes : Enter(avail, mode)

ExitStep == \E exc \in BlockExits, stopRaises \in BOOLEAN : Exit(exc, stopRaises)

Next ==
    \/ OpenStep
    \/ Close
    \/ StartStream
    \/ StopStream
    \/ ReadStep
    \/ ReadAttemptStep
    \/ Flush
    \/ CaptureStep
    \/ SetConfigStep
    \/ Capabilities
    \/ EnterStep
    \/ ExitStep

Spec == Init /\ [][Next]_vars

\* read() runs in a thread that keeps running, and the monotonic clock keeps
\* advancing while it does: an iteration in which time has advanced is never
\* postponed forever
LiveSpec == Init /\ [][Next]_vars /\ WF_vars(ReadAttemptTick)

----------------------------------------------------------------------------
(* CameraInterface: convenience configuration helpers *)

\* CameraConfig(**{**cfg.__dict__, ...}): cfg with the fields of changes replaced
Overlay(cfg, changes) ==
    [ f \in DOMAIN cfg |-> IF f \in DOMAIN changes THEN changes[f] ELSE cfg[f] ]

ResolutionRequest(cfg, width, height) ==
    Overlay(cfg, [resolution |-> Resolution(width, height)])

FramerateRequest(cfg, fps) == Overlay(cfg, [framerate |-> fps])

ExposureRequest(cfg, auto, exposure_time_us, iso) ==
    Overlay(cfg, [ auto_exposure |-> auto,
                   exposure_time_us |-> IF ~auto THEN exposure_time_us ELSE 0,
                   iso |-> iso ])

WhiteBalanceRequest(cfg, auto, gain_r, gain_b) ==
    Overlay(cfg, [ auto_white_balance |-> auto,
                   white_balance_gain_r |-> IF ~auto THEN gain_r ELSE 0,
                   white_balance_gain_b |-> IF ~auto THEN gain_b ELSE 0 ])

FocusRequest(cfg, auto, distance_m) ==
    Overlay(cfg, [ auto_focus |-> auto,
                   focus_distance_m |-> IF ~auto THEN distance_m ELSE 0 ])

RoiRequest(cfg, x, y, w, h) == Overlay(cfg, [roi_norm |-> << x, y, w, h >>])

\* a helper: `cfg = self.current_config`, the request built from it, and
\* `return self.set_config(cfg)`
Setter(op, request) ==
    /\ pc = "idle"
    /\ Plain
    /\ UNCHANGED << source, in_with, _is_open, _is_streaming, _capture, native_handles >>
    /\ SetConfigBody(op, request)

SetResolution(width, height) ==
    Setter("set_resolution", ResolutionRequest(_current_config, width, height))

SetFramerate(fps) == Setter("set_framerate", FramerateRequest(_current_config, fps))

SetExposure(auto, exposure_time_us, iso) ==
    Setter("set_exposure", ExposureRequest(_current_config, auto, exposure_time_us, iso))

SetWhiteBalance(auto, gain_r, gain_b) ==
    Setter("set_white_balance", WhiteBalanceRequest(_current_config, auto, gain_r, gain_b))

SetFocus(auto, distance_m) ==
    Setter("set_focus", FocusRequest(_current_config, auto, distance_m))

SetRoi(x, y, w, h) == Setter("set_roi", RoiRequest(_current_config, x, y, w, h))

\* the manual values a caller passes, with auto on or off
ExposureTimes == { 100 }

IsoValues == { 400 }

GainsR == { 2 }

GainsB == { 3 }

FocusDistances == { 1 }

Rois == { << 0, 0, 1, 1 >> }

SetResolutionStep == \E r \in Resolutions : SetResolution(r.width, r.height)

SetFramerateStep == \E fps \in Framerates : SetFramerate(fps)

SetExposureStep ==
    \E auto \in BOOLEAN, t \in ExposureTimes, iso \in IsoValues : SetExposure(auto, t, iso)

SetWhiteBalanceStep ==
    \E auto \in BOOLEAN, gr \in GainsR, gb \in GainsB : SetWhiteBalance(auto, gr, gb)

SetFocusStep == \E auto \in BOOLEAN, d \in FocusDistances : SetFocus(auto, d)

SetRoiStep == \E roi \in Rois : SetRoi(roi[1], roi[2], roi[3], roi[4])

\* cam.open() without a configuration
OpenDefaultStep ==
    \E avail \in BOOLEAN, mode \in SupportedModes : Open(FALSE, NoConfig, avail, mode)

SetterNext ==
    \/ OpenDefaultStep
    \/ Close
    \/ SetResolutionStep
    \/ SetFramerateStep
    \/ SetExposureStep
    \/ SetWhiteBalanceStep
    \/ SetFocusStep
    \/ SetRoiStep

SetterSpec == Init /\ [][SetterNext]_vars

----------------------------------------------------------------------------
(* CameraFactory.create() *)

\* values ACTIVE_CAMERA_DRIVER can be given, as the parts between the dots:
\* the three the file lists (only the first module exists), a class the
\* module lacks, a class whose constructor rejects the hardware parameters, a
\* class that is no CameraInterface, and a key without a dot
DriverKeys ==
    { << "Software", "Drivers", "opencv_camera", "OpenCVCamera" >>,
      << "Software", "Drivers", "mock_camera", "MockCamera" >>,
      << "Software", "Drivers", "picamera2_camera", "Picamera2Camera" >>,
      << "Software", "Drivers", "opencv_camera", "Missing" >>,
      << "Software", "Drivers", "opencv_camera", "CameraConfig" >>,
      << "builtins", "dict" >>,
      << "OpenCVCamera" >> }

\* key.rsplit(".", 1): one part when the key has no dot, else two
RSplit(key) ==
    IF Len(key) < 2 THEN << key >>
    ELSE << SubSeq(key, 1, Len(key) - 1), << key[Len(key)] >> >>

\* modules importlib.import_module() finds, with the names each defines
ModuleNames(module_path) ==
    IF module_path = << "Software", "Drivers", "opencv_camera" >>
    THEN { "OpenCVCamera", "CameraInterface", "CameraConfig", "Frame" }
    ELSE IF module_path = << "builtins" >> THEN { "dict" }
    ELSE { }

\* classes whose constructor accepts device_index, default_resolution and
\* default_framerate as keyword arguments
AcceptsHardwareConfig == { "OpenCVCamera", "dict" }

\* concrete subclasses of CameraInterface
InterfaceClasses == { "OpenCVCamera" }

\* create without the isinstance check
IsCameraInterface_Unchecked(class_name) == TRUE

\* create: `isinstance(camera, CameraInterface)`
IsCameraInterface(class_name) == class_name \in InterfaceClasses

\* what create() does for a key: the exception raised or "CameraInterface"
\* for a returned backend, and the number of objects it constructed
CreateOutcome(key) ==
    LET parts == RSplit(key)
    IN IF Len(parts) # 2
       THEN [result |-> "ValueError", constructed |-> 0]
       ELSE LET module_path == parts[1]
                class_name == parts[2][1]
            IN IF ModuleNames(module_path) = { }
               THEN [result |-> "ModuleNotFoundError", constructed |-> 0]
               ELSE IF class_name \notin ModuleNames(module_path)
               THEN [result |-> "AttributeError", constructed |-> 0]
               ELSE IF class_name \notin AcceptsHardwareConfig
               THEN [result |-> "TypeError", constructed |-> 0]
               ELSE IF ~IsCameraInterface(class_name)
               THEN [result |-> "TypeError", constructed |-> 1]
               ELSE [result |-> "CameraInterface", constructed |-> 1]

\* cam = CameraFactory.create() with ACTIVE_CAMERA_DRIVER = key; the caller
\* goes on with the backend returned, or keeps the one it had
Create(key) ==
    /\ pc = "idle"
    /\ ~in_with
    /\ LET out == CreateOutcome(key)
       IN /\ constructed' = out.constructed
          /\ Observe("create", out.result, NoConfig, NoConfig, 0, 0, 0)
          /\ IF out.result = "CameraInterface"
             THEN \* OpenCVCamera.__init__ and the class attributes it inherits
                  /\ _is_open' = FALSE
                  /\ _is_streaming' = FALSE
                  /\ _current_config' = DefaultConfig
                  /\ _capture' = "None"
                  /\ native_handles' = 0
             ELSE UNCHANGED << camera, native_handles >>
    /\ create_key' = key
    /\ pc' = "idle"
    /\ read_timeout' = NoTimeout
    /\ elapsed' = 0
    /\ exit_exc' = "None"
    /\ exit_closes' = 0
    /\ UNCHANGED << hw_mode, source, in_with, conc, rd >>

CreateStep == \E key \in DriverKeys : Create(key)

FactoryNext == Next \/ CreateStep

FactorySpec == Init /\ [][FactoryNext]_vars

----------------------------------------------------------------------------
(* A reader thread beside the controlling thread *)
(*                                                                         *)
(* One thread iterates `for frame in cam.frames(timeout)`; another drives  *)
(* open, start_stream, stop_stream and close.  Threads switch between      *)
(* statements, so close() is one action per statement and frames() one     *)
(* action per statement of its loop and of the read() it calls.            *)

\* what the controlling thread observed of its calls
caller == << pc, read_timeout, elapsed, in_with, last_op, last_result, prev_op,
             req_config, ret_config, prim_calls, grab_calls, hw_sets, exit_exc,
             exit_closes, constructed, create_key >>

\* outcomes of `self._capture.read()` on a handle in state cap; a VideoCapture
\* that holds no device returns (False, None)
ReadOutcomes(cap) == IF cap = "opened" THEN PrimitiveYields ELSE { FALSE }

\* cam.frames(timeout) is called and iterated: a new generator
FramesStart(timeout) ==
    /\ gen_pc \in { "none", "done", "error" }
    /\ gen_pc' = "check"
    /\ gen_timeout' = timeout
    /\ gen_elapsed' = 0
    /\ gen_result' = "None"
    /\ UNCHANGED << camera, native_handles, hw_mode, source, caller, rd, close_pc >>

\* frames: `while self.is_streaming:`; a false condition ends the generator
FramesCheck ==
    /\ gen_pc = "check"
    /\ gen_pc' = (IF _is_streaming THEN "call" ELSE "done")
    /\ UNCHANGED << camera, native_handles, hw_mode, source, caller, rd, close_pc,
                    gen_timeout, gen_elapsed, gen_result >>

\* frames: `yield self.read(timeout=timeout)`, the state check of read(); its
\* exception leaves the generator
FramesReadEnter ==
    /\ gen_pc = "call"
    /\ IF ReadStateError(_is_streaming, _capture)
       THEN gen_pc' = "error" /\ gen_result' = "CameraStateError"
       ELSE gen_pc' = "loop" /\ UNCHANGED gen_result
    /\ gen_elapsed' = 0
    /\ UNCHANGED << camera, native_handles, hw_mode, source, caller, rd, close_pc, gen_timeout >>

\* one iteration of the loop of that read(): self._capture is looked up again
\* each time, and None has no read()
FramesReadAttempt(ok, d) ==
    /\ gen_pc = "loop"
    /\ UNCHANGED << camera, native_handles, hw_mode, source, caller, rd, close_pc, gen_timeout >>
    /\ IF _capture = "None"
       THEN gen_pc' = "error" /\ gen_result' = "AttributeError" /\ UNCHANGED gen_elapsed
       ELSE /\ ok \in ReadOutcomes(_capture)
            /\ IF ok
               THEN gen_pc' = "yield" /\ UNCHANGED << gen_result, gen_elapsed >>
               ELSE /\ gen_elapsed' = (IF gen_timeout.none THEN 0 ELSE gen_elapsed + d)
                    /\ IF TimedOut(gen_timeout, gen_elapsed')
                       THEN gen_pc' = "error" /\ gen_result' = "CameraTimeout"
                       ELSE gen_pc' = "loop" /\ UNCHANGED gen_result

\* the consumer asks for the next frame
FramesResume ==
    /\ gen_pc = "yield"
    /\ gen_pc' = "check"
    /\ UNCHANGED << camera, native_handles, hw_mode, source, caller, rd, close_pc,
                    gen_timeout, gen_elapsed, gen_result >>

\* close: `if self._capture is not None: self._capture.release()`; the object
\* stays in _capture and no longer holds the device
CloseRelease ==
    /\ close_pc = "idle"
    /\ IF _capture # "None"
       THEN _capture' = "unopened" /\ close_pc' = "released"
       ELSE UNCHANGED _capture /\ close_pc' = "cleared"
    /\ native_handles' = native_handles - Released(_capture)
    /\ UNCHANGED << _is_open, _is_streaming, _current_config, hw_mode, source, caller, rd,
                    gen_pc, gen_timeout, gen_elapsed, gen_result >>

\* close: `self._capture = None`
CloseClear ==
    /\ close_pc = "released"
    /\ _capture' = CloseCapture(_capture)
    /\ close_pc' = "cleared"
    /\ UNCHANGED << _is_open, _is_streaming, _current_config, hw_mode, source, caller, rd,
                    native_handles,
                    gen_pc, gen_timeout, gen_elapsed, gen_result >>

\* close: `self._is_open = False`
CloseFlagOpen ==
    /\ close_pc = "cleared"
    /\ _is_open' = FALSE
    /\ close_pc' = "closed"
    /\ UNCHANGED << _is_streaming, _current_config, _capture, native_handles, hw_mode, source, caller, rd,
                    gen_pc, gen_timeout, gen_elapsed, gen_result >>

\* close: `self._is_streaming = False`, and close() returns
CloseFlagStreaming ==
    /\ close_pc = "closed"
    /\ _is_streaming' = FALSE
    /\ close_pc' = "idle"
    /\ pc' = "idle"
    /\ read_timeout' = NoTimeout
    /\ elapsed' = 0
    /\ exit_exc' = "None"
    /\ exit_closes' = 0
    /\ constructed' = 0
    /\ create_key' = << >>
    /\ Observe("close", "None", NoConfig, NoConfig, 0, 0, 0)
    /\ UNCHANGED << _is_open, _current_config, _capture, native_handles, hw_mode, source, in_with, rd,
                    gen_pc, gen_timeout, gen_elapsed, gen_result >>

\* the controlling thread is between two calls
ConcOpen == close_pc = "idle" /\ OpenStep

ConcStartStream == close_pc = "idle" /\ StartStream

ConcStopStream == close_pc = "idle" /\ StopStream

FramesStartStep == \E timeout \in Timeouts : FramesStart(timeout)

FramesReadAttemptStep == \E ok \in BOOLEAN, d \in 0..MaxStep : FramesReadAttempt(ok, d)

ConcNext ==
    \/ ConcOpen
    \/ ConcStartStream
    \/ ConcStopStream
    \/ CloseRelease
    \/ CloseClear
    \/ CloseFlagOpen
    \/ CloseFlagStreaming
    \/ FramesStartStep
    \/ FramesCheck
    \/ FramesReadEnter
    \/ FramesReadAttemptStep
    \/ FramesResume

ConcSpec == Init /\ [][ConcNext]_vars

----------------------------------------------------------------------------
(* Threads that call read() concurrently *)
(*                                                                         *)
(* read() is one action per statement: the state check, the entry into     *)
(* `with self._lock`, the lookup of self._capture and the entry into its   *)
(* read(), the return of that read(), the exit from the with block, and    *)
(* the test of ok and of the timeout.  No other method takes _lock, so the *)
(* controlling thread's calls stay one action each.                        *)

\* timeouts the reading threads pass: none, or one that any advance of the
\* clock exceeds
ReaderTimeouts == { NoTimeout, Timeout(0) }

\* advances of the clock a reading thread observes between two checks
ReaderSteps == { 0, 1 }

\* a lock that never makes a thread wait
LockAvailable_Always(holder) == TRUE

\* `with self._lock:` enters when no thread holds the lock
LockAvailable(holder) == holder = 0

\* outcomes of a _capture.read() that is returning: those of the opened
\* device, or, when the handle was released or cleared while the call was
\* inside it (a data race), a frame fetched before the release or a failure
ReturnOutcomes(cap) ==
    IF cap = "opened" THEN PrimitiveYields ELSE PrimitiveYields \cup { FALSE }

\* read(timeout) called by thread t: the state check and start_time
ReadCall(t, timeout) ==
    /\ readers[t].pc = "idle"
    /\ readers' = [readers EXCEPT ![t] =
                     IF ReadStateError(_is_streaming, _capture)
                     THEN [IdleReader EXCEPT !.result = "CameraStateError"]
                     ELSE [IdleReader EXCEPT !.pc = "acquire", !.timeout = timeout,
                                             !.result = "pending"]]
    /\ UNCHANGED << camera, native_handles, hw_mode, source, caller, conc,
                    _lock, frames_out >>

\* read: `with self._lock:` is entered
LockAcquire(t) ==
    /\ readers[t].pc = "acquire"
    /\ LockAvailable(_lock)
    /\ _lock' = t
    /\ readers' = [readers EXCEPT ![t].pc = "locked"]
    /\ UNCHANGED << camera, native_handles, hw_mode, source, caller, conc, frames_out >>

\* read: `self._capture.read()` is entered; self._capture is looked up now,
\* and None has no read(): the AttributeError leaves the with block, which
\* releases the lock, and read()
PrimitiveEnter(t) ==
    /\ readers[t].pc = "locked"
    /\ IF _capture = "None"
       THEN /\ readers' = [readers EXCEPT ![t] =
                             [IdleReader EXCEPT !.result = "AttributeError"]]
            /\ _lock' = 0
       ELSE /\ readers' = [readers EXCEPT ![t].pc = "inside", ![t].seen = frames_out]
            /\ UNCHANGED _lock
    /\ UNCHANGED << camera, native_handles, hw_mode, source, caller, conc, frames_out >>

\* read: `ok, frame = self._capture.read()` returns; a frame is the one after
\* those the device had handed out when the call entered
PrimitiveReturn(t, ok) ==
    /\ readers[t].pc = "inside"
    /\ ok \in (IF readers[t].seen < MaxFrames THEN ReturnOutcomes(_capture) ELSE { FALSE })
    /\ readers' = [readers EXCEPT ![t].pc = "release", ![t].ok = ok,
                                  ![t].frame = IF ok THEN readers[t].seen + 1 ELSE 0]
    /\ frames_out' = (IF ok /\ readers[t].seen + 1 > frames_out
                      THEN readers[t].seen + 1 ELSE frames_out)
    /\ UNCHANGED << camera, native_handles, hw_mode, source, caller, conc, _lock >>

\* read: the with block is left
LockRelease(t) ==
    /\ readers[t].pc = "release"
    /\ _lock' = 0
    /\ readers' = [readers EXCEPT ![t].pc = "decide"]
    /\ UNCHANGED << camera, native_handles, hw_mode, source, caller, conc, frames_out >>

\* read: `if ok: return Frame(...)`, else the timeout check, the clock having
\* advanced by d, and the next iteration
ReadDecide(t, d) ==
    /\ readers[t].pc = "decide"
    /\ LET r == readers[t]
           el == IF r.timeout.none THEN 0 ELSE r.elapsed + d
       IN readers' = [readers EXCEPT ![t] =
                        IF r.ok
                        THEN [IdleReader EXCEPT !.result = "Frame", !.frame = r.frame]
                        ELSE IF TimedOut(r.timeout, el)
                        THEN [IdleReader EXCEPT !.result = "CameraTimeout"]
                        ELSE [r EXCEPT !.pc = "acquire", !.elapsed = el]]
    /\ UNCHANGED << camera, native_handles, hw_mode, source, caller, conc,
                    _lock, frames_out >>

ReadCallStep(T) == \E t \in T, timeout \in ReaderTimeouts : ReadCall(t, timeout)

LockAcquireStep(T) == \E t \in T : LockAcquire(t)

PrimitiveEnterStep(T) == \E t \in T : PrimitiveEnter(t)

PrimitiveReturnStep(T) == \E t \in T, ok \in BOOLEAN : PrimitiveReturn(t, ok)

LockReleaseStep(T) == \E t \in T : LockRelease(t)

ReadDecideStep(T) == \E t \in T, d \in ReaderSteps : ReadDecide(t, d)

\* no thread has called read() yet
NoReaderStarted == readers = [t \in Readers |-> IdleReader]

\* the camera is opened and set streaming before the reading threads start
SetUpOpen == NoReaderStarted /\ ~_is_open /\ OpenDefaultStep

SetUpStream == NoReaderStarted /\ _is_open /\ ~_is_streaming /\ StartStream

\* every thread of Readers calls read() on the camera once it streams
ReadersNext ==
    \/ SetUpOpen
    \/ SetUpStream
    \/ ReadCallStep(Readers)
    \/ LockAcquireStep(Readers)
    \/ PrimitiveEnterStep(Readers)
    \/ PrimitiveReturnStep(Readers)
    \/ LockReleaseStep(Readers)
    \/ ReadDecideStep(Readers)

ReadersSpec == Init /\ [][ReadersNext]_vars

\* cam.set_config(CameraConfig())
SetDefaultConfig == SetConfig(DefaultConfig)

\* one thread calls read() while the controlling thread calls open,
\* start_stream, close, flush, capture and set_config
GuardNext ==
    \/ OpenDefaultStep
    \/ StartStream
    \/ Close
    \/ Flush
    \/ CaptureStep
    \/ SetDefaultConfig
    \/ ReadCallStep({ 1 })
    \/ LockAcquireStep({ 1 })
    \/ PrimitiveEnterStep({ 1 })
    \/ PrimitiveReturnStep({ 1 })
    \/ LockReleaseStep({ 1 })
    \/ ReadDecideStep({ 1 })

GuardSpec == Init /\ [][GuardNext]_vars

----------------------------------------------------------------------------
(* Properties *)

\* methods that require an open device
NeedsOpen == { "set_config", "capabilities", "capture", "start_stream" }

\* C1: in every reachable state the camera is Closed, Open(idle) or
\* Open(streaming): is_streaming is never true while is_open is false.
C1_StreamingImpliesOpen == _is_streaming => _is_open

\* start_stream succeeded and the camera is Open(streaming)
C1_Witness ==
    last_op = "start_stream" /\ last_result = "None" /\ _is_open /\ _is_streaming

\* C2: every close() returns without an error and leaves the camera Closed
\* (not open, not streaming, no handle held); a close() that directly follows
\* a close() changes nothing.
C2_CloseIdempotent ==
    [][ last_op' = "close" =>
          /\ last_result' = "None"
          /\ ~_is_open' /\ ~_is_streaming' /\ _capture' = "None"
          /\ (last_op = "close" => UNCHANGED << camera, hw_mode >>) ]_vars

\* close() called twice in a row
C2_Witness ==
    last_op = "close" /\ prev_op = "close" /\ last_result = "None" /\ _capture = "None"

\* C3: after an open() that signalled an error the camera is Closed, holds no
\* device, and set_config, capabilities, capture and start_stream signal a
\* state error as on a never-opened camera.
C3_FailedOpenLeavesClosed ==
    [][ /\ (last_op' = "open" /\ last_result' = "CameraOpenError") =>
              (~_is_open' /\ ~_is_streaming' /\ _capture' # "opened")
        /\ (last_op = "open" /\ last_result = "CameraOpenError" /\ last_op' \in NeedsOpen) =>
              last_result' = "CameraStateError" ]_vars

\* C4: read() called when the camera is not Open(streaming) signals a state
\* error at once: no call of the capture primitive, no retry loop, and
\* is_open, is_streaming and current_config unchanged, whatever the timeout.
C4_ReadNotStreaming ==
    [][ (pc = "idle" /\ last_op' = "read" /\ ~(_is_open /\ _is_streaming)) =>
          /\ last_result' = "CameraStateError"
          /\ pc' = "idle"
          /\ prim_calls' = 0
          /\ UNCHANGED << _is_open, _is_streaming, _current_config >> ]_vars

\* read() on a camera that was streaming and has been stopped
C4_Witness ==
    /\ last_op = "read" /\ prev_op = "stop_stream"
    /\ last_result = "CameraStateError"
    /\ _is_open /\ ~_is_streaming /\ prim_calls = 0

\* C5: on a streaming camera whose primitive never yields a frame,
\* read(timeout=T) with finite T ends with a timeout; a timeout is never
\* signalled while the elapsed time is <= T and is signalled at the first
\* failed attempt seen after it exceeds T; the read never signals a state
\* error and leaves is_open and is_streaming as they were.
C5_ReadTimesOut ==
    /\ []((last_op = "read" /\ last_result = "CameraTimeout") =>
            (~read_timeout.none /\ elapsed > read_timeout.t))
    /\ []((pc = "reading" /\ ~read_timeout.none) => elapsed <= read_timeout.t)
    /\ [][ pc = "reading" =>
             (last_result' # "CameraStateError" /\ UNCHANGED << _is_open, _is_streaming >>) ]_vars
    /\ ((pc = "reading" /\ ~read_timeout.none /\ source = "never") ~>
            (pc = "idle" /\ last_op = "read" /\ last_result = "CameraTimeout"
               /\ _is_open /\ _is_streaming))

\* a read with the largest timeout timed out on a source that never yields
C5_Witness ==
    /\ last_op = "read" /\ last_result = "CameraTimeout" /\ source = "never"
    /\ read_timeout = Timeout(MaxTimeout) /\ elapsed > MaxTimeout
    /\ _is_open /\ _is_streaming

\* C6: the configuration set_config returns and stores carries the resolution
\* and framerate the hardware uses after the call, and so does current_config
\* after a successful open() without a configuration.
C6_AppliedIsHardwareMode ==
    [][ /\ (_is_open /\ last_op' = "set_config" /\ last_result' = "CameraConfig") =>
              (ret_config' = hw_mode' /\ _current_config' = hw_mode')
        /\ (~_is_open /\ last_op' = "open" /\ last_result' = "None"
              /\ req_config' = NoConfig) =>
              _current_config' = hw_mode' ]_vars

\* C7: on an open camera set_config(req) returns applied with current_config
\* equal to applied, and set_config(applied) called next returns applied again
\* and leaves current_config equal to applied.
C7_AppliedIsFixedPoint ==
    [][ /\ (_is_open /\ last_op' = "set_config") =>
              (last_result' = "CameraConfig" /\ _current_config' = ret_config')
        /\ (_is_open /\ last_op = "set_config" /\ last_result = "CameraConfig"
              /\ last_op' = "set_config" /\ req_config' = ret_config) =>
              (ret_config' = ret_config /\ _current_config' = ret_config) ]_vars

\* set_config(applied) right after set_config(req) returned applied, for a
\* request the hardware does not support
C7_Witness ==
    /\ _is_open /\ _capture = "opened"
    /\ last_op = "set_config" /\ prev_op = "set_config"
    /\ last_result = "CameraConfig"
    /\ req_config = ret_config /\ _current_config = ret_config
    /\ ret_config.resolution \notin SupportedResolutions

\* C8: set_config on a camera that is not open signals a state error, sets no
\* hardware property and leaves current_config as it was.
C8_SetConfigNotOpen ==
    [][ (pc = "idle" /\ ~_is_open /\ last_op' = "set_config") =>
          /\ last_result' = "CameraStateError"
          /\ hw_sets' = 0
          /\ _current_config' = _current_config ]_vars

\* C9: capabilities() signals a state error whenever the camera is not open,
\* returns the snapshot whenever it is, and changes no state.
C9_CapabilitiesNeedsOpen ==
    [][ (pc = "idle" /\ last_op' = "capabilities") =>
          /\ last_result' = (IF _is_open THEN "dict" ELSE "CameraStateError")
          /\ UNCHANGED << camera, hw_mode >> ]_vars

C12_OpenWhenOpenIsNoOp ==
    [][ (pc = "idle" /\ _is_open /\ last_op' = "open") =>
          /\ last_result' = "None"
          /\ hw_sets' = 0
          /\ UNCHANGED << camera, hw_mode >> ]_vars

\* open(config) with a configuration other than the current one, on a
\* streaming camera
C12_Witness ==
    /\ last_op = "open" /\ prev_op = "start_stream" /\ last_result = "None"
    /\ _is_open /\ _is_streaming
    /\ req_config # NoConfig /\ req_config # _current_config

\* C13: a successful open from Closed ends Open(idle); current_config is what
\* set_config stores for the supplied configuration, or the default
\* configuration when none is supplied, whatever it held before.
C13_OpenSetsConfig ==
    [][ (pc = "idle" /\ ~_is_open /\ last_op' = "open" /\ last_result' = "None") =>
          /\ _is_open' /\ ~_is_streaming' /\ _capture' = "opened"
          /\ _current_config' = (IF req_config' = NoConfig THEN DefaultConfig
                                 ELSE StoredConfig(req_config')) ]_vars

\* open() without a configuration right after a close()
C13_Witness ==
    /\ last_op = "open" /\ prev_op = "close" /\ last_result = "None"
    /\ req_config = NoConfig /\ _current_config = DefaultConfig
    /\ _is_open /\ ~_is_streaming

\* C14: start_stream() makes an open camera streaming (a no-op if it already
\* is), signals a state error on a camera that is not open and leaves it
\* Closed and not streaming; current_config and the handle never change.
C14_StartStream ==
    [][ (pc = "idle" /\ last_op' = "start_stream") =>
          /\ IF _is_open
             THEN last_result' = "None" /\ _is_streaming' /\ _is_open'
             ELSE last_result' = "CameraStateError" /\ ~_is_streaming' /\ ~_is_open'
          /\ UNCHANGED << _current_config, _capture, hw_mode >> ]_vars

\* start_stream() on a camera that is not open
C14_Witness ==
    /\ last_op = "start_stream" /\ last_result = "CameraStateError"
    /\ ~_is_open /\ ~_is_streaming /\ prev_op = "close"

\* C15: stop_stream() never signals an error; it clears is_streaming and
\* nothing else, so from Open(idle) or Closed it changes nothing.
C15_StopStream ==
    [][ (pc = "idle" /\ last_op' = "stop_stream") =>
          /\ last_result' = "None"
          /\ ~_is_streaming'
          /\ UNCHANGED << _is_open, _current_config, _capture, hw_mode >> ]_vars

\* stop_stream() took a streaming camera to Open(idle), handle still held
C15_Witness ==
    /\ last_op = "stop_stream" /\ prev_op = "read" /\ last_result = "None"
    /\ _is_open /\ ~_is_streaming /\ _capture = "opened"

\* C16: capture() calls the primitive exactly once when the camera is open,
\* streaming or not, and returns the frame or signals a timeout; when the
\* camera is not open it signals a state error without calling the
\* primitive; it never changes is_open, is_streaming or current_config.
C16_CaptureOnce ==
    [][ (pc = "idle" /\ last_op' = "capture") =>
          /\ IF _is_open
             THEN /\ prim_calls' = 1
                  /\ last_result' \in { "Frame", "CameraTimeout" }
                  /\ (source = "never" => last_result' = "CameraTimeout")
             ELSE /\ prim_calls' = 0
                  /\ last_result' = "CameraStateError"
          /\ UNCHANGED << camera, hw_mode >> ]_vars

\* a capture between the reads of a streaming session: the stream stays active
C16_Witness ==
    /\ last_op = "capture" /\ prev_op = "read" /\ last_result = "Frame"
    /\ prim_calls = 1 /\ _is_open /\ _is_streaming

\* C18: an open() that follows a close() succeeds exactly when the device is
\* acquired, and then yields Open(idle) with a handle that holds the device:
\* nothing of the earlier session is visible.
C18_ReopenAfterClose ==
    [][ (pc = "idle" /\ last_op = "close" /\ last_op' = "open") =>
          /\ (last_result' = "None") = (_capture' = "opened")
          /\ (last_result' = "None") => (_is_open' /\ ~_is_streaming')
          /\ (last_result' # "None") =>
               (last_result' = "CameraOpenError" /\ ~_is_open' /\ ~_is_streaming') ]_vars

\* a second session: open, ..., close, open
C18_Witness ==
    /\ last_op = "open" /\ prev_op = "close" /\ last_result = "None"
    /\ _is_open /\ ~_is_streaming /\ _capture = "opened" /\ req_config # NoConfig

\* C11: frames() ends normally once streaming is stopped, wherever the stop
\* falls: the only exception it ever raises is the timeout of a read on a
\* camera that is still streaming.
C11_FramesEndsWithoutError ==
    [][ (gen_pc # "error" /\ gen_pc' = "error") =>
          (gen_result' = "CameraTimeout" /\ _is_streaming') ]_vars

\* C20: while close() runs, the handle is never already released or cleared
\* with is_streaming still true.
C20_StopBeforeRelease ==
    ~(close_pc # "idle" /\ _capture # "opened" /\ _is_streaming)

\* keys whose module and class both resolve
ResolvableKeys ==
    { k \in DriverKeys : Len(k) >= 2 /\ k[Len(k)] \in ModuleNames(SubSeq(k, 1, Len(k) - 1)) }

SetterFields ==
    [ set_resolution |-> { "resolution" },
      set_framerate |-> { "framerate" },
      set_exposure |-> { "auto_exposure", "exposure_time_us", "iso" },
      set_white_balance |-> { "auto_white_balance", "white_balance_gain_r",
                              "white_balance_gain_b" },
      set_focus |-> { "auto_focus", "focus_distance_m" },
      set_roi |-> { "roi_norm" } ]

\* C17: a helper's request differs from current_config only in its own
\* fields, goes to set_config once and the helper returns what set_config
\* returned; on a camera that is not open the helper signals a state error
\* and current_config is unchanged.
C17_SettersAreDeltas ==
    [][ last_op' \in DOMAIN SetterFields =>
          /\ \A f \in DOMAIN req_config' \ SetterFields[last_op'] :
                req_config'[f] = _current_config[f]
          /\ last_result' \in { "CameraConfig", "CameraStateError" }
          /\ (last_result' = "CameraConfig") =>
                (hw_sets' = 3 /\ ret_config' = _current_config')
          /\ (~_is_open) =>
                (last_result' = "CameraStateError" /\ UNCHANGED _current_config) ]_vars

\* C23: flush() makes 5 grab calls, returning no frame, on a camera that holds
\* a device handle and none on a camera that holds no device; either way it
\* signals no error and leaves is_open, is_streaming and current_config as
\* they were.
C23_FlushDiscardsFive ==
    [][ last_op' = "flush" =>
          /\ grab_calls' = (IF _capture = "opened" THEN FlushCount ELSE 0)
          /\ prim_calls' = 0
          /\ last_result' = "None"
          /\ UNCHANGED << camera, hw_mode >> ]_vars

\* C24: between calls the backend holds a device handle exactly when is_open
\* is true, and then exactly one; a failed open leaves it holding none, so
\* the next open overwrites no unreleased handle; after close() every handle
\* it acquired has been released.
C24_HandleIffOpen ==
    /\ native_handles = (IF _is_open THEN 1 ELSE 0)
    /\ (_capture = "opened") <=> _is_open
    /\ (last_op = "close" => native_handles = 0 /\ _capture = "None")

\* an open that acquires the device right after an open that failed
C24_Witness ==
    /\ last_op = "open" /\ prev_op = "open" /\ last_result = "None" /\ hw_sets = 3
    /\ _is_open /\ native_handles = 1

\* threads inside `with self._lock`
InLock == { t \in Readers : readers[t].pc \in { "locked", "inside", "release" } }

\* C22: of the threads calling read() on a streaming camera at most one is
\* inside _capture.read() at any instant; the lock is held only by a thread
\* inside its with block, so not between two attempts nor after read() ended
\* with a frame or a timeout; and no frame is returned to two threads.
C22_ReadsSerialized ==
    /\ Cardinality(InLock) <= 1
    /\ Cardinality({ t \in Readers : readers[t].pc = "inside" }) <= 1
    /\ _lock = (IF InLock = { } THEN 0 ELSE CHOOSE t \in InLock : TRUE)
    /\ \A t \in Readers, u \in Readers :
          (t # u /\ readers[t].frame # 0) => readers[t].frame # readers[u].frame
    /\ \A t \in Readers :
          readers[t].result \in { "None", "pending", "Frame", "CameraTimeout",
                                  "CameraStateError" }

\* one thread waits for the lock while the other, which already returned a
\* frame from an earlier read(), is inside _capture.read() again
C22_Witness ==
    /\ readers[1].pc = "inside" /\ readers[1].seen = 1
    /\ readers[2].pc = "acquire"
    /\ _lock = 1

\* a call of the controlling thread that uses or changes the device handle
HandleTouched ==
    /\ rd' = rd
    /\ _capture # "None"
    /\ \/ last_op' = "close" /\ _capture' = "None"
       \/ last_op' = "set_config" /\ hw_sets' > 0
       \/ last_op' = "capture" /\ prim_calls' > 0
       \/ last_op' = "flush" /\ grab_calls' > 0

\* C21: close(), set_config(), capture() and flush() never use or change the
\* handle while another thread is inside _capture.read(), and that thread's
\* read() ends only with a frame, a timeout or a state error.
C21_HandleGuarded ==
    [][ /\ HandleTouched => \A t \in Readers : readers[t].pc # "inside"
        /\ \A t \in Readers :
              readers'[t].result \in { "None", "pending", "Frame", "CameraTimeout",
                                       "CameraStateError" } ]_vars

====
